---- MODULE Spec2Model ----
(***************************************************************************)
(* Model of the local text-to-speech MCP server: the playback singleton    *)
(* (tools/audio-player.ts), the synthesize_text router                      *)
(* (tools/synthesize-text.ts), the two engines (MacOSEngine, KokoroEngine), *)
(* the list_voices and health_check tools and the server's tool-call        *)
(* handler (server.ts).                                                     *)
(*                                                                          *)
(* Node runs every handler on one thread: an action of this module is one   *)
(* uninterrupted run of code between two awaits on a subprocess.  Child     *)
(* processes and the events they raise ('close', 'error') are separate      *)
(* actions.                                                                 *)
(***************************************************************************)
EXTENDS Integers, Sequences, FiniteSets, TLC

\* ------------------------------------------------------------------ bounds
\* afplay children that exist at the same time.
MaxProcs == 3
\* synthesize() calls in flight at the same time.
MaxReqs == 2

\* ------------------------------------------------------- program constants
\* z.string().max(50000) and the engines' own ceiling.
MaxTextLength == 50000
\* z.string().min(1)
MinTextLength == 1

NULL == "null"
Absent == "undefined"

\* `currentProcess: ChildProcess | null`: no child
NoChild == 0

\* A file path is the sequence of its parts; null and undefined are the
\* empty sequence, the empty string is the sequence of one empty part.
NoFile == << >>
EmptyPath == << "" >>

EngineNames == {"macos", "kokoro"}

\* `let engines` of server.ts before main() has assigned the registry
Unset == {"unset"}

\* ----------------------------------------------------------------- strings
\* A string of the program is a TLA+ string; its characters, for the
\* operations that look inside it (toLowerCase, includes), are given here.
Chars(s) ==
  CASE s = "AF (American Female)" -> <<"A", "F", " ", "(", "A", "m", "e", "r", "i", "c", "a", "n", " ", "F", "e", "m", "a", "l", "e", ")">>
    [] s = "AF_BELLA" -> <<"A", "F", "_", "B", "E", "L", "L", "A">>
    [] s = "AF_SARAH" -> <<"A", "F", "_", "S", "A", "R", "A", "H">>
    [] s = "ALEX" -> <<"A", "L", "E", "X">>
    [] s = "AM_ADAM" -> <<"A", "M", "_", "A", "D", "A", "M">>
    [] s = "AM_MICHAEL" -> <<"A", "M", "_", "M", "I", "C", "H", "A", "E", "L">>
    [] s = "Alex" -> <<"A", "l", "e", "x">>
    [] s = "BF_EMMA" -> <<"B", "F", "_", "E", "M", "M", "A">>
    [] s = "BM_GEORGE" -> <<"B", "M", "_", "G", "E", "O", "R", "G", "E">>
    [] s = "DE_AF_ANNA" -> <<"D", "E", "_", "A", "F", "_", "A", "N", "N", "A">>
    [] s = "DE_AM_HANS" -> <<"D", "E", "_", "A", "M", "_", "H", "A", "N", "S">>
    [] s = "ES_AF_MARIA" -> <<"E", "S", "_", "A", "F", "_", "M", "A", "R", "I", "A">>
    [] s = "ES_AM_ANTONIO" -> <<"E", "S", "_", "A", "M", "_", "A", "N", "T", "O", "N", "I", "O">>
    [] s = "FR_AF_SOPHIE" -> <<"F", "R", "_", "A", "F", "_", "S", "O", "P", "H", "I", "E">>
    [] s = "FR_AM_PIERRE" -> <<"F", "R", "_", "A", "M", "_", "P", "I", "E", "R", "R", "E">>
    [] s = "Anna" -> <<"A", "n", "n", "a">>
    [] s = "IT_AF_GIULIA" -> <<"I", "T", "_", "A", "F", "_", "G", "I", "U", "L", "I", "A">>
    [] s = "IT_AM_MARCO" -> <<"I", "T", "_", "A", "M", "_", "M", "A", "R", "C", "O">>
    [] s = "JA_AF_YUKI" -> <<"J", "A", "_", "A", "F", "_", "Y", "U", "K", "I">>
    [] s = "JA_AM_HIROSHI" -> <<"J", "A", "_", "A", "M", "_", "H", "I", "R", "O", "S", "H", "I">>
    [] s = "Nobody" -> <<"N", "o", "b", "o", "d", "y">>
    [] s = "PT_AF_MARIA" -> <<"P", "T", "_", "A", "F", "_", "M", "A", "R", "I", "A">>
    [] s = "PT_AM_JOAO" -> <<"P", "T", "_", "A", "M", "_", "J", "O", "A", "O">>
    [] s = "ZH_AF_MEI" -> <<"Z", "H", "_", "A", "F", "_", "M", "E", "I">>
    [] s = "ZH_AM_WEI" -> <<"Z", "H", "_", "A", "M", "_", "W", "E", "I">>
    [] s = "a" -> <<"a">>
    [] s = "af_sarah" -> <<"a", "f", "_", "s", "a", "r", "a", "h">>
    [] s = "alex" -> <<"a", "l", "e", "x">>
    [] s = "kokoro-af" -> <<"k", "o", "k", "o", "r", "o", "-", "a", "f">>
    [] s = "kokoro-af_bella" -> <<"k", "o", "k", "o", "r", "o", "-", "a", "f", "_", "b", "e", "l", "l", "a">>
    [] s = "kokoro-af_sarah" -> <<"k", "o", "k", "o", "r", "o", "-", "a", "f", "_", "s", "a", "r", "a", "h">>
    [] s = "kokoro-am_adam" -> <<"k", "o", "k", "o", "r", "o", "-", "a", "m", "_", "a", "d", "a", "m">>
    [] s = "kokoro-am_michael" -> <<"k", "o", "k", "o", "r", "o", "-", "a", "m", "_", "m", "i", "c", "h", "a", "e", "l">>
    [] s = "kokoro-bf_emma" -> <<"k", "o", "k", "o", "r", "o", "-", "b", "f", "_", "e", "m", "m", "a">>
    [] s = "kokoro-bm_george" -> <<"k", "o", "k", "o", "r", "o", "-", "b", "m", "_", "g", "e", "o", "r", "g", "e">>
    [] s = "kokoro-de_af_anna" -> <<"k", "o", "k", "o", "r", "o", "-", "d", "e", "_", "a", "f", "_", "a", "n", "n", "a">>
    [] s = "kokoro-de_am_hans" -> <<"k", "o", "k", "o", "r", "o", "-", "d", "e", "_", "a", "m", "_", "h", "a", "n", "s">>
    [] s = "kokoro-es_af_maria" -> <<"k", "o", "k", "o", "r", "o", "-", "e", "s", "_", "a", "f", "_", "m", "a", "r", "i", "a">>
    [] s = "kokoro-es_am_antonio" -> <<"k", "o", "k", "o", "r", "o", "-", "e", "s", "_", "a", "m", "_", "a", "n", "t", "o", "n", "i", "o">>
    [] s = "kokoro-fr_af_sophie" -> <<"k", "o", "k", "o", "r", "o", "-", "f", "r", "_", "a", "f", "_", "s", "o", "p", "h", "i", "e">>
    [] s = "kokoro-fr_am_pierre" -> <<"k", "o", "k", "o", "r", "o", "-", "f", "r", "_", "a", "m", "_", "p", "i", "e", "r", "r", "e">>
    [] s = "kokoro-it_af_giulia" -> <<"k", "o", "k", "o", "r", "o", "-", "i", "t", "_", "a", "f", "_", "g", "i", "u", "l", "i", "a">>
    [] s = "kokoro-it_am_marco" -> <<"k", "o", "k", "o", "r", "o", "-", "i", "t", "_", "a", "m", "_", "m", "a", "r", "c", "o">>
    [] s = "kokoro-ja_af_yuki" -> <<"k", "o", "k", "o", "r", "o", "-", "j", "a", "_", "a", "f", "_", "y", "u", "k", "i">>
    [] s = "kokoro-ja_am_hiroshi" -> <<"k", "o", "k", "o", "r", "o", "-", "j", "a", "_", "a", "m", "_", "h", "i", "r", "o", "s", "h", "i">>
    [] s = "kokoro-pt_af_maria" -> <<"k", "o", "k", "o", "r", "o", "-", "p", "t", "_", "a", "f", "_", "m", "a", "r", "i", "a">>
    [] s = "kokoro-pt_am_joao" -> <<"k", "o", "k", "o", "r", "o", "-", "p", "t", "_", "a", "m", "_", "j", "o", "a", "o">>
    [] s = "kokoro-zh_af_mei" -> <<"k", "o", "k", "o", "r", "o", "-", "z", "h", "_", "a", "f", "_", "m", "e", "i">>
    [] s = "kokoro-zh_am_wei" -> <<"k", "o", "k", "o", "r", "o", "-", "z", "h", "_", "a", "m", "_", "w", "e", "i">>
    [] s = "macos-alex" -> <<"m", "a", "c", "o", "s", "-", "a", "l", "e", "x">>
    [] s = "macos-anna" -> <<"m", "a", "c", "o", "s", "-", "a", "n", "n", "a">>
    [] s = "macos-" -> <<"m", "a", "c", "o", "s", "-">>
    [] s = "anna" -> <<"a", "n", "n", "a">>

UpperCase == <<"A","B","C","D","E","F","G","H","I","J","K","L","M",
               "N","O","P","Q","R","S","T","U","V","W","X","Y","Z">>
LowerCase == <<"a","b","c","d","e","f","g","h","i","j","k","l","m",
               "n","o","p","q","r","s","t","u","v","w","x","y","z">>

\* String.prototype.toLowerCase, on the characters
toLowerCase(cs) ==
  [i \in DOMAIN cs |->
     IF \E k \in DOMAIN UpperCase : UpperCase[k] = cs[i]
     THEN LowerCase[CHOOSE k \in DOMAIN UpperCase : UpperCase[k] = cs[i]]
     ELSE cs[i]]

\* String.prototype.includes, on the characters
includes(cs, sub) ==
  \E k \in 0..(Len(cs) - Len(sub)) :
     \A i \in 1..Len(sub) : cs[k + i] = sub[i]

\* the strings the model uses: the voice names and ids, and the voices asked for
KnownStrings ==
  { "AF (American Female)",
    "AF_BELLA",
    "AF_SARAH",
    "ALEX",
    "AM_ADAM",
    "AM_MICHAEL",
    "Alex",
    "BF_EMMA",
    "BM_GEORGE",
    "DE_AF_ANNA",
    "DE_AM_HANS",
    "ES_AF_MARIA",
    "ES_AM_ANTONIO",
    "FR_AF_SOPHIE",
    "FR_AM_PIERRE",
    "Anna",
    "IT_AF_GIULIA",
    "IT_AM_MARCO",
    "JA_AF_YUKI",
    "JA_AM_HIROSHI",
    "Nobody",
    "PT_AF_MARIA",
    "PT_AM_JOAO",
    "ZH_AF_MEI",
    "ZH_AM_WEI",
    "a",
    "af_sarah",
    "alex",
    "kokoro-af",
    "kokoro-af_bella",
    "kokoro-af_sarah",
    "kokoro-am_adam",
    "kokoro-am_michael",
    "kokoro-bf_emma",
    "kokoro-bm_george",
    "kokoro-de_af_anna",
    "kokoro-de_am_hans",
    "kokoro-es_af_maria",
    "kokoro-es_am_antonio",
    "kokoro-fr_af_sophie",
    "kokoro-fr_am_pierre",
    "kokoro-it_af_giulia",
    "kokoro-it_am_marco",
    "kokoro-ja_af_yuki",
    "kokoro-ja_am_hiroshi",
    "kokoro-pt_af_maria",
    "kokoro-pt_am_joao",
    "kokoro-zh_af_mei",
    "kokoro-zh_am_wei",
    "macos-alex",
    "macos-anna",
    "macos-",
    "anna" }

\* s.toLowerCase() of every known string, computed once
LowerOf == [s \in KnownStrings |-> toLowerCase(Chars(s))]

\* a.toLowerCase().includes(b.toLowerCase()) of every two known strings
LowerIncludes == [a \in KnownStrings, b \in KnownStrings |-> includes(LowerOf[a], LowerOf[b])]

\* a.toLowerCase() === b.toLowerCase()
EqualIgnoreCase(a, b) == LowerOf[a] = LowerOf[b]

\* a.toLowerCase().includes(b.toLowerCase())
IncludesIgnoreCase(a, b) == LowerIncludes[a, b]

\* ------------------------------------------------------------ voice catalogs
\* KokoroEngine.loadVoices: the built-in catalog (id and name of each voice).
KokoroCatalog ==
  << [id |-> "kokoro-af", name |-> "AF (American Female)", engine |-> "kokoro"],
     [id |-> "kokoro-af_bella", name |-> "AF_BELLA", engine |-> "kokoro"],
     [id |-> "kokoro-af_sarah", name |-> "AF_SARAH", engine |-> "kokoro"],
     [id |-> "kokoro-am_adam", name |-> "AM_ADAM", engine |-> "kokoro"],
     [id |-> "kokoro-am_michael", name |-> "AM_MICHAEL", engine |-> "kokoro"],
     [id |-> "kokoro-bf_emma", name |-> "BF_EMMA", engine |-> "kokoro"],
     [id |-> "kokoro-bm_george", name |-> "BM_GEORGE", engine |-> "kokoro"],
     [id |-> "kokoro-es_am_antonio", name |-> "ES_AM_ANTONIO", engine |-> "kokoro"],
     [id |-> "kokoro-es_af_maria", name |-> "ES_AF_MARIA", engine |-> "kokoro"],
     [id |-> "kokoro-fr_am_pierre", name |-> "FR_AM_PIERRE", engine |-> "kokoro"],
     [id |-> "kokoro-fr_af_sophie", name |-> "FR_AF_SOPHIE", engine |-> "kokoro"],
     [id |-> "kokoro-ja_af_yuki", name |-> "JA_AF_YUKI", engine |-> "kokoro"],
     [id |-> "kokoro-ja_am_hiroshi", name |-> "JA_AM_HIROSHI", engine |-> "kokoro"],
     [id |-> "kokoro-de_af_anna", name |-> "DE_AF_ANNA", engine |-> "kokoro"],
     [id |-> "kokoro-de_am_hans", name |-> "DE_AM_HANS", engine |-> "kokoro"],
     [id |-> "kokoro-it_af_giulia", name |-> "IT_AF_GIULIA", engine |-> "kokoro"],
     [id |-> "kokoro-it_am_marco", name |-> "IT_AM_MARCO", engine |-> "kokoro"],
     [id |-> "kokoro-pt_af_maria", name |-> "PT_AF_MARIA", engine |-> "kokoro"],
     [id |-> "kokoro-pt_am_joao", name |-> "PT_AM_JOAO", engine |-> "kokoro"],
     [id |-> "kokoro-zh_af_mei", name |-> "ZH_AF_MEI", engine |-> "kokoro"],
     [id |-> "kokoro-zh_am_wei", name |-> "ZH_AM_WEI", engine |-> "kokoro"] >>

\* `macos-${name.toLowerCase()}`
MacVoiceId(name) ==
  CHOOSE s \in KnownStrings : Chars(s) = Chars("macos-") \o LowerOf[name]

MacVoice(name) == [id |-> MacVoiceId(name), name |-> name, engine |-> "macos"]

\* What MacOSEngine.parseVoices can return for the output of `say -v "?"`:
\* no line matches the pattern, or the matching lines in their order.
MacCatalogs ==
  { << >>, << MacVoice("Anna") >>, << MacVoice("Anna"), MacVoice("Alex") >> }

\* ------------------------------------------------------------------- inputs
\* play_audio's audioPath: omitted, the empty string, or a path of the caller.
AudioPathInputs == {NoFile, EmptyPath, << "/tmp/user.aiff" >>}

\* a text is known by its length and by whether all its characters are
\* white space (text.trim().length === 0); the empty text is blank.
Text(len, blank) == [len |-> len, blank |-> blank]
NoText == Text(-1, TRUE)
TextInputs ==
  { Text(0, TRUE), Text(MinTextLength, TRUE), Text(MinTextLength, FALSE),
    Text(MaxTextLength, FALSE), Text(MaxTextLength + 1, FALSE),
    Text(MaxTextLength + 1, TRUE) }

\* the texts a client of synthesize_text sends: empty, blank, plain, too long
RouterTexts ==
  { Text(0, TRUE), Text(MinTextLength, TRUE), Text(MinTextLength, FALSE),
    Text(MaxTextLength + 1, FALSE) }

\* synthesize_text's voice: omitted, or a string
VoiceInputs == {Absent, "anna", "Nobody"}

\* synthesize_text's engine, after the schema's default
PreferenceInputs == {"macos", "kokoro", "auto"}

\* ---------------------------------------------------------------- variables
VARIABLES
  platform,          \* process.platform: "darwin" or "other"
  engines,           \* server.ts `engines`: Unset before main() has set it, then the registered names
  hostAlive,         \* the Node process is running (no uncaught exception yet)
  initialized,       \* engine name -> its `initialized` flag
  voices,            \* engine name -> its `voices` array
  pythonExecutable,  \* KokoroEngine.pythonExecutable is set
  currentProcess,    \* AudioPlayer.currentProcess: a child or NoChild
  isPaused,          \* AudioPlayer.isPaused
  currentFile,       \* AudioPlayer.currentFile
  mostRecentFile,    \* AudioPlayer.mostRecentFile
  procs,             \* the afplay children: slot -> [st, term]
  reqs,              \* synthesize() calls in flight: slot -> call record or FreeSlot
  lastCompleted,     \* filePath of the AudioResult an engine returned last, or NoFile
  last               \* what the step just taken did and answered

playerVars == <<currentProcess, isPaused, currentFile, mostRecentFile>>
engineVars == <<initialized, voices, pythonExecutable>>
synthVars  == <<reqs, lastCompleted>>
vars == <<platform, engines, hostAlive, initialized, voices, pythonExecutable,
          currentProcess, isPaused, currentFile, mostRecentFile, procs,
          reqs, lastCompleted, last>>

Pids  == 1..MaxProcs
Slots == 1..MaxReqs

NoSig == <<"none", 0>>

\* The record of a step: the tool or event, and what came back.
\*   status   the player status string of the answer
\*   code     the error code of the answer (NULL: no error)
\*   handler  "return" / "throw": how the tool's handler ended
\*   server   "result" / "McpError": how the CallTool handler ended
\*   sig      the signal the step sent, <<signal, pid>>
\*   engine   the engine the router selected
\*   spawned  a subprocess was spawned on behalf of the request
\*   initThrew  the engine's lazy initialize() raised
\*   arg, result  the arguments and the values of a function applied on its
\*            own, the latest first
\*   left     the files of the request that exist when it is answered:
\*            "output" (the audio file), "script" (the temp script)
Ev(op) ==
  [op |-> op, status |-> NULL, code |-> NULL, handler |-> NULL, server |-> NULL,
   file |-> NoFile, sig |-> NoSig, engine |-> NULL, spawned |-> FALSE,
   text |-> NoText, initThrew |-> FALSE, via |-> NULL, left |-> {},
   arg |-> << >>, result |-> << >>]

\* a synthesize() call: where it stands, its engine and its request
Call(pc, e, text, voice, via, path) ==
  [pc |-> pc, engine |-> e, text |-> text, voice |-> voice, via |-> via, path |-> path]
FreeSlot == Call("free", NULL, NoText, Absent, NULL, NoFile)

NoProc == [st |-> "none", term |-> FALSE]

Init ==
  /\ platform \in {"darwin", "other"}
  /\ engines = Unset
  /\ hostAlive = TRUE
  /\ initialized = [e \in EngineNames |-> FALSE]
  /\ voices = [e \in EngineNames |-> << >>]
  /\ pythonExecutable = FALSE
  /\ currentProcess = NoChild
  /\ isPaused = FALSE
  /\ currentFile = NoFile
  /\ mostRecentFile = NoFile
  /\ procs = [p \in Pids |-> NoProc]
  /\ reqs = [s \in Slots |-> FreeSlot]
  /\ lastCompleted = NoFile
  /\ last = Ev("none")

\* ------------------------------------------------------ playback subprocesses
\* ChildProcess.kill(signal) on child p.  A child that has exited, or that
\* never started, takes no signal.  SIGSTOP and SIGCONT act at once; SIGTERM
\* becomes pending and is acted on by a running process only: a process
\* suspended by SIGSTOP keeps it pending until it is continued.
Kill(ps, p, sig) ==
  IF ps[p].st \notin {"running", "stopped"} THEN ps
  ELSE CASE sig = "SIGTERM" -> [ps EXCEPT ![p].term = TRUE]
         [] sig = "SIGSTOP" -> [ps EXCEPT ![p].st = "stopped"]
         [] sig = "SIGCONT" -> [ps EXCEPT ![p].st = "running"]

\* the child is a live operating-system process
Alive(p) == procs[p].st \in {"running", "stopped"}

\* the slot of the child spawn() creates next: the lowest one not in use
FreshPid ==
  IF \E p \in Pids : procs[p].st = "none"
  THEN CHOOSE p \in Pids : procs[p].st = "none" /\ \A q \in Pids : q < p => procs[q].st # "none"
  ELSE NoChild

CanSpawn == \E p \in Pids : procs[p].st = "none"

\* AudioPlayer.getStatus().status
getStatus(cp, paused) == IF cp # NoChild THEN (IF paused THEN "paused" ELSE "playing") ELSE "stopped"

\* `audioPath || this.mostRecentFile`
Falsy(x) == x \in {NoFile, EmptyPath}
DefaultedPath(audioPath, recent) == IF Falsy(audioPath) THEN recent ELSE audioPath

\* ------------------------------------------------------------ AudioPlayer
\* The player's fields and the children they refer to, as one value.
Player ==
  [cp |-> currentProcess, paused |-> isPaused, file |-> currentFile,
   recent |-> mostRecentFile, procs |-> procs]

\* what a player method answers besides the new state
Answer(P, status, code, sig, file) ==
  [cp |-> P.cp, paused |-> P.paused, file |-> P.file, recent |-> P.recent,
   procs |-> P.procs, status |-> status, code |-> code, sig |-> sig, played |-> file]

\* AudioPlayer.stop
stop(P) ==
  IF P.cp # NoChild
  THEN Answer([P EXCEPT !.procs = Kill(P.procs, P.cp, "SIGTERM"),
                        !.cp = NoChild, !.file = NoFile, !.paused = FALSE],
              "stopped", NULL, <<"SIGTERM", P.cp>>, NoFile)
  ELSE Answer(P, "stopped", NULL, NoSig, NoFile)

\* a pause that signals whenever a child is tracked, paused or not
pauseSignalsAgain(P) ==
  IF P.cp = NoChild
  THEN Answer(P, "stopped", NULL, NoSig, NoFile)
  ELSE Answer([P EXCEPT !.procs = Kill(P.procs, P.cp, "SIGSTOP"), !.paused = TRUE],
              "paused", NULL, <<"SIGSTOP", P.cp>>, NoFile)

\* a pause that sets the pause flag whether or not a child is tracked
pauseWithoutProcess(P) ==
  IF P.paused
  THEN Answer(P, "stopped", NULL, NoSig, NoFile)
  ELSE IF P.cp = NoChild
  THEN Answer([P EXCEPT !.paused = TRUE], "paused", NULL, NoSig, NoFile)
  ELSE Answer([P EXCEPT !.procs = Kill(P.procs, P.cp, "SIGSTOP"), !.paused = TRUE],
              "paused", NULL, <<"SIGSTOP", P.cp>>, NoFile)

\* AudioPlayer.pause
pause(P) ==
  IF P.cp = NoChild \/ P.paused
  THEN Answer(P, "stopped", NULL, NoSig, NoFile)
  ELSE Answer([P EXCEPT !.procs = Kill(P.procs, P.cp, "SIGSTOP"), !.paused = TRUE],
              "paused", NULL, <<"SIGSTOP", P.cp>>, NoFile)

\* AudioPlayer.resume
resume(P) ==
  IF P.cp = NoChild \/ ~P.paused
  THEN Answer(P, IF P.cp # NoChild THEN "playing" ELSE "stopped", NULL, NoSig, NoFile)
  ELSE Answer([P EXCEPT !.procs = Kill(P.procs, P.cp, "SIGCONT"), !.paused = FALSE],
              "playing", NULL, <<"SIGCONT", P.cp>>, NoFile)

\* a play that stops the current playback before it looks at the path
playStopsFirst(P, audioPath, pid, started) ==
  LET S == stop(P)
      filePath == DefaultedPath(audioPath, P.recent)
  IN IF Falsy(filePath)
     THEN Answer(S, NULL, "FILE_NOT_FOUND", S.sig, NoFile)
     ELSE Answer([S EXCEPT !.procs = [S.procs EXCEPT ![pid] =
                                        [st |-> IF started THEN "running" ELSE "failed",
                                         term |-> FALSE]],
                           !.cp = pid, !.file = filePath, !.paused = FALSE],
                 "playing", NULL, S.sig, filePath)

\* a play that also records the file it plays as the most recent file
playRemembers(P, audioPath, pid, started) ==
  LET filePath == DefaultedPath(audioPath, P.recent) IN
  IF Falsy(filePath)
  THEN Answer(P, NULL, "FILE_NOT_FOUND", NoSig, NoFile)
  ELSE LET S == stop(P)
           child == [st |-> IF started THEN "running" ELSE "failed", term |-> FALSE]
       IN Answer([S EXCEPT !.procs = [S.procs EXCEPT ![pid] = child],
                           !.cp = pid, !.file = filePath, !.paused = FALSE,
                           !.recent = filePath],
                 "playing", NULL, S.sig, filePath)

\* AudioPlayer.play.  pid is the child spawn() creates and started tells
\* whether afplay could be started; a child that could not be started
\* raises 'error' later.
play(P, audioPath, pid, started) ==
  LET filePath == DefaultedPath(audioPath, P.recent) IN
  IF Falsy(filePath)
  THEN Answer(P, NULL, "FILE_NOT_FOUND", NoSig, NoFile)
  ELSE LET S == stop(P)
           child == [st |-> IF started THEN "running" ELSE "failed", term |-> FALSE]
       IN Answer([S EXCEPT !.procs = [S.procs EXCEPT ![pid] = child],
                           !.cp = pid, !.file = filePath, !.paused = FALSE],
                 "playing", NULL, S.sig, filePath)

\* the 'close' listener play() installs on each child
onClose(P) == [P EXCEPT !.cp = NoChild, !.file = NoFile, !.paused = FALSE]

\* the player's fields and children become those of A
SetPlayer(A) ==
  /\ currentProcess' = A.cp
  /\ isPaused' = A.paused
  /\ currentFile' = A.file
  /\ mostRecentFile' = A.recent
  /\ procs' = A.procs

\* playAudioHandler: a TTSError of the player is thrown again, anything else
\* is thrown as PLAYBACK_FAILED; a result is returned as a payload.
playAudioHandler(code) == IF code # NULL THEN "throw" ELSE "return"

\* The CallTool handler of server.ts: what the handler returns is the
\* result; what it throws is thrown on as an McpError.
CallTool(handler) == IF handler = "throw" THEN "McpError" ELSE "result"

\* the record of a play_audio call that ran player method `op` with answer A
PlayAudioEv(op, A) ==
  [Ev(op) EXCEPT !.status = A.status, !.code = A.code, !.sig = A.sig,
                 !.file = A.played,
                 !.handler = playAudioHandler(A.code),
                 !.server = CallTool(playAudioHandler(A.code))]

\* the server answers requests: main() has set `engines` and connected
Serving == engines # Unset /\ hostAlive

othersUnchangedByPlayer ==
  UNCHANGED <<platform, engines, hostAlive, initialized, voices, pythonExecutable,
              reqs, lastCompleted>>

\* play_audio {action: 'play', audioPath}
ToolPlay(audioPath) ==
  /\ Serving
  /\ (~Falsy(DefaultedPath(audioPath, mostRecentFile))) => CanSpawn
  /\ \E started \in BOOLEAN :
       LET A == play(Player, audioPath, FreshPid, started) IN
       /\ SetPlayer(A)
       /\ last' = PlayAudioEv("play", A)
  /\ othersUnchangedByPlayer

\* play_audio {action: 'pause'}
ToolPause ==
  /\ Serving
  /\ LET A == pause(Player) IN SetPlayer(A) /\ last' = PlayAudioEv("pause", A)
  /\ othersUnchangedByPlayer

\* play_audio {action: 'resume'}
ToolResume ==
  /\ Serving
  /\ LET A == resume(Player) IN SetPlayer(A) /\ last' = PlayAudioEv("resume", A)
  /\ othersUnchangedByPlayer

\* play_audio {action: 'stop'}
ToolStop ==
  /\ Serving
  /\ LET A == stop(Player) IN SetPlayer(A) /\ last' = PlayAudioEv("stop", A)
  /\ othersUnchangedByPlayer

\* play_audio with arguments the schema rejects: the ZodError is thrown as
\* a TTSError PLAYBACK_FAILED
ToolPlayAudioInvalid ==
  /\ Serving
  /\ last' = [Ev("play_audio") EXCEPT !.code = "PLAYBACK_FAILED",
                                      !.handler = playAudioHandler("PLAYBACK_FAILED"),
                                      !.server = CallTool(playAudioHandler("PLAYBACK_FAILED"))]
  /\ UNCHANGED playerVars
  /\ UNCHANGED procs
  /\ othersUnchangedByPlayer

\* afplay reaches the end of the file, or gives up on it
ProcessExit(p) ==
  /\ procs[p].st = "running"
  /\ ~procs[p].term
  /\ procs' = [procs EXCEPT ![p].st = "exited"]
  /\ last' = Ev("exit")
  /\ UNCHANGED playerVars
  /\ othersUnchangedByPlayer

\* a running child acts on its pending SIGTERM
Terminate(p) ==
  /\ procs[p].st = "running"
  /\ procs[p].term
  /\ procs' = [procs EXCEPT ![p].st = "exited"]
  /\ last' = Ev("terminate")
  /\ UNCHANGED playerVars
  /\ othersUnchangedByPlayer

\* Node raises 'close' for a child that has exited
CloseEvent(p) ==
  /\ hostAlive
  /\ procs[p].st = "exited"
  /\ LET Q == onClose([Player EXCEPT !.procs = [procs EXCEPT ![p] = NoProc]]) IN
     SetPlayer(Answer(Q, NULL, NULL, NoSig, NoFile))
  /\ last' = Ev("close")
  /\ othersUnchangedByPlayer

\* Node raises 'error' for a child that could not be started; the listener
\* of play() throws inside the event, which no one catches.
ErrorEvent(p) ==
  /\ hostAlive
  /\ procs[p].st = "failed"
  /\ procs' = [procs EXCEPT ![p] = NoProc]
  /\ hostAlive' = FALSE
  /\ last' = [Ev("error") EXCEPT !.code = "PLAYBACK_FAILED"]
  /\ UNCHANGED playerVars
  /\ UNCHANGED <<platform, engines, initialized, voices, pythonExecutable,
                 reqs, lastCompleted>>

\* ------------------------------------------------------------------ engines
\* The fields of the two engine objects, as one value.
EngineState == [initialized |-> initialized, voices |-> voices, py |-> pythonExecutable]

\* What the subprocesses of an initialize() find.
\*   macos:  ok: `which say` and `say -v "?"` both succeed; catalog: what
\*           parseVoices makes of the listing
\*   kokoro: python: findPythonExecutable finds an interpreter;
\*           verify: verifyKokoroInstallation succeeds with it
InitProbes(e) ==
  IF e = "macos"
  THEN {[ok |-> FALSE, catalog |-> << >>, python |-> FALSE, verify |-> FALSE]}
       \cup {[ok |-> TRUE, catalog |-> c, python |-> FALSE, verify |-> FALSE] : c \in MacCatalogs}
  ELSE {[ok |-> FALSE, catalog |-> << >>, python |-> py, verify |-> vf] :
          py \in BOOLEAN, vf \in BOOLEAN}

\* the probes an initialize() of engine e runs with the fields S: none when
\* it is not asked for, returns at once, or raises before its first probe
NoProbe == [ok |-> FALSE, catalog |-> << >>, python |-> FALSE, verify |-> FALSE]
Probes(e, S, plat, asked) ==
  IF asked /\ ~S.initialized[e] /\ ~(e = "macos" /\ plat # "darwin")
  THEN InitProbes(e) ELSE {NoProbe}

\* the result of an engine method: the fields after it, whether it raised,
\* whether it spawned a subprocess
Outcome(S, threw, spawned) ==
  [initialized |-> S.initialized, voices |-> S.voices, py |-> S.py,
   threw |-> threw, spawned |-> spawned]

\* MacOSEngine.initialize past its `if (this.initialized) return`
macosInitBody(S, plat, o) ==
  IF plat # "darwin" THEN Outcome(S, TRUE, FALSE)
  ELSE IF ~o.ok THEN Outcome(S, TRUE, TRUE)
  ELSE Outcome([S EXCEPT !.voices["macos"] = o.catalog, !.initialized["macos"] = TRUE],
               FALSE, TRUE)

\* KokoroEngine.initialize past its `if (this.initialized) return`: a
\* failure of detectPythonEnvironment is logged and swallowed.
kokoroInitBody(S, o) ==
  IF ~o.python THEN Outcome(S, FALSE, TRUE)
  ELSE IF ~o.verify THEN Outcome([S EXCEPT !.py = TRUE], FALSE, TRUE)
  ELSE Outcome([S EXCEPT !.py = TRUE, !.voices["kokoro"] = KokoroCatalog,
                         !.initialized["kokoro"] = TRUE], FALSE, TRUE)

initBody(e, S, plat, o) ==
  IF e = "macos" THEN macosInitBody(S, plat, o) ELSE kokoroInitBody(S, o)

\* a listVoices() that initializes whether or not the engine is initialized
listVoicesReloads(e, S, plat, o) == initBody(e, S, plat, o)

\* an initialize() without its `if (this.initialized) return`
initializeAgain(e, S, plat, o) == initBody(e, S, plat, o)

\* TTSEngine.initialize
initialize(e, S, plat, o) ==
  IF S.initialized[e] THEN Outcome(S, FALSE, FALSE) ELSE initBody(e, S, plat, o)

\* TTSEngine.cleanup
cleanup(e, S) == [S EXCEPT !.initialized[e] = FALSE, !.voices[e] = << >>]

\* TTSEngine.isAvailable: avail is what its own probes find (`which say`;
\* checkPythonAvailability and checkKokoroImport).  It reads no field and
\* writes none.
isAvailable(e, plat, avail) ==
  IF e = "macos" THEN plat = "darwin" /\ avail ELSE avail

\* an isAvailable() that keeps the interpreter its probe has found
isAvailableKeepsPython(e, S, plat, avail) ==
  [result |-> isAvailable(e, plat, avail),
   after  |-> Outcome([S EXCEPT !.py = S.py \/ (e = "kokoro" /\ avail)], FALSE,
                      e = "kokoro" \/ plat = "darwin")]

\* A call of TTSEngine.isAvailable with the engine fields S: its value and
\* its Outcome.  Both are one try block whose catch returns false; the
\* macOS one runs `which say` on darwin, the Kokoro one runs the
\* interpreters of checkPythonAvailability and checkKokoroImport, which
\* return what they find and assign no field.
isAvailableCall(e, S, plat, avail) ==
  [result |-> isAvailable(e, plat, avail),
   after  |-> Outcome(S, FALSE, e = "kokoro" \/ plat = "darwin")]

\* Array.prototype.find over a catalog, `matching` being the indices of the
\* voices the test accepts: the first of them
FindVoice(catalog, matching) ==
  IF matching # {}
  THEN LET i == CHOOSE i \in matching : \A j \in matching : i <= j
       IN [found |-> TRUE, voice |-> catalog[i]]
  ELSE [found |-> FALSE, voice |-> [id |-> NULL, name |-> NULL, engine |-> NULL]]

\* the default voice: the named one, else voices[0], which is undefined
\* for an empty catalog
DefaultVoice(catalog, named) ==
  LET f == FindVoice(catalog, named) IN
  IF f.found THEN f
  ELSE IF Len(catalog) > 0 THEN [found |-> TRUE, voice |-> catalog[1]]
  ELSE f

\* MacOSEngine.resolveVoice
macosResolveVoice(catalog, requested) ==
  IF requested = Absent
  THEN DefaultVoice(catalog, {i \in DOMAIN catalog : catalog[i].name = "Alex"})
  ELSE FindVoice(catalog, {i \in DOMAIN catalog :
                             \/ EqualIgnoreCase(catalog[i].name, requested)
                             \/ EqualIgnoreCase(catalog[i].id, requested)})

\* KokoroEngine.resolveVoice
kokoroResolveVoice(catalog, requested) ==
  IF requested = Absent
  THEN DefaultVoice(catalog, {i \in DOMAIN catalog : catalog[i].id = "kokoro-af_sarah"})
  ELSE FindVoice(catalog, {i \in DOMAIN catalog :
                             \/ EqualIgnoreCase(catalog[i].name, requested)
                             \/ EqualIgnoreCase(catalog[i].id, requested)
                             \/ IncludesIgnoreCase(catalog[i].name, requested)})

\* resolveVoice for every catalog an engine can hold and every voice that
\* can be asked for, computed once
MacosResolved ==
  [c \in MacCatalogs, r \in VoiceInputs |-> macosResolveVoice(c, r)]
KokoroResolved ==
  [c \in {<< >>, KokoroCatalog}, r \in VoiceInputs |-> kokoroResolveVoice(c, r)]

resolveVoice(e, catalog, requested) ==
  IF e = "macos" THEN MacosResolved[catalog, requested]
  ELSE KokoroResolved[catalog, requested]

\* path.join(outputDir, `${engine}_${voice.name}_${timestamp}_${textPreview}.${ext}`)
\* for requests made within one second (the time stamp ends with the
\* seconds) with texts whose first 30 characters give the same preview
OutputPath(e, voice) == << e, voice.name, IF e = "macos" THEN "aiff" ELSE "wav" >>

\* What the file system does for the steps before the subprocess:
\* "ok", "mkdir" (ensureDirectoryExists fails), "write" (the temp script
\* cannot be written; kokoro only).
FsOutcomes == {"ok", "mkdir", "write"}

\* the checks of synthesize() with the length of the text looked at first
synthesizeChecksLengthFirst(e, S, text, requested, fs) ==
  IF text.len > MaxTextLength THEN "TEXT_TOO_LONG"
  ELSE IF text.len = 0 \/ text.blank THEN "INVALID_PARAMETERS"
  ELSE LET r == resolveVoice(e, S.voices[e], requested) IN
       IF ~r.found THEN (IF requested = Absent THEN "TypeError" ELSE "VOICE_NOT_FOUND")
       ELSE IF fs = "mkdir" THEN "FILE_OPERATION_FAILED"
       ELSE IF e = "kokoro" /\ fs = "write" THEN "SYNTHESIS_FAILED"
       ELSE IF e = "kokoro" /\ ~S.py THEN "ENGINE_NOT_AVAILABLE"
       ELSE NULL

\* synthesize() from its text checks to the spawn of its subprocess: the
\* error code it fails with, or NULL when the subprocess has been spawned.
\* "TypeError" is the untagged exception of `voice.name` on undefined.
synthesizeChecks(e, S, text, requested, fs) ==
  IF text.len = 0 \/ text.blank THEN "INVALID_PARAMETERS"
  ELSE IF text.len > MaxTextLength THEN "TEXT_TOO_LONG"
  ELSE LET r == resolveVoice(e, S.voices[e], requested) IN
       IF ~r.found THEN (IF requested = Absent THEN "TypeError" ELSE "VOICE_NOT_FOUND")
       ELSE IF fs = "mkdir" THEN "FILE_OPERATION_FAILED"
       ELSE IF e = "kokoro" /\ fs = "write" THEN "SYNTHESIS_FAILED"
       ELSE IF e = "kokoro" /\ ~S.py THEN "ENGINE_NOT_AVAILABLE"
       ELSE NULL

\* the file system plays a part only once the text and the voice have passed
FsSteps(e, S, text, requested) ==
  IF synthesizeChecks(e, S, text, requested, "ok")
       \in {"INVALID_PARAMETERS", "TEXT_TOO_LONG", "TypeError", "VOICE_NOT_FOUND"}
  THEN {"ok"} ELSE FsOutcomes

\* The files of a synthesize() call that exist when it returns or raises
\* with `code`, pc telling whether its subprocess had been spawned and why
\* the reason of a failure after it.  The text and voice checks come before
\* any file; the temp script is written before executeKokoro looks for the
\* interpreter and is unlinked once executeKokoro has returned, before the
\* output file is looked for; the catch block unlinks the output file only.
leftBehind(e, pc, code, why) ==
  IF pc = "exec"
  THEN (IF code = NULL THEN {"output"}
        ELSE IF e = "kokoro" /\ why # <<"stat">> THEN {"script"} ELSE {})
  ELSE (IF e = "kokoro" /\ code = "ENGINE_NOT_AVAILABLE" THEN {"script"} ELSE {})

\* How the synthesis subprocess ends before its deadline: `error` (it could
\* not be spawned, the 'error' event), else its 'close' event with `exit0`
\* (the exit code is 0) and `marker` (its standard output contains SUCCESS);
\* `file` tells whether fs.stat then finds the output file.
ExecOutcomes ==
  {x \in [error : BOOLEAN, exit0 : BOOLEAN, marker : BOOLEAN, file : BOOLEAN] :
     x.error => (~x.exit0 /\ ~x.marker /\ ~x.file)}

\* an executeKokoro that looks at the exit code alone
execReasonExitOnly(e, x) ==
  IF x.error THEN "spawn"
  ELSE IF ~x.exit0 THEN "exit"
  ELSE IF ~x.file THEN "stat"
  ELSE NULL

\* why synthesize() fails after its subprocess, NULL on success: "spawn"
\* (the 'error' event), "exit" (a non-zero exit code), "marker" (kokoro:
\* exit code 0 without SUCCESS), "stat" (no output file to stat)
execReason(e, x) ==
  IF x.error THEN "spawn"
  ELSE IF ~x.exit0 THEN "exit"
  ELSE IF e = "kokoro" /\ ~x.marker THEN "marker"
  ELSE IF ~x.file THEN "stat"
  ELSE NULL

\* the error code synthesize() fails with after its subprocess, NULL on success
execCode(e, x) ==
  LET why == execReason(e, x) IN
  IF why = NULL THEN NULL
  ELSE IF why = "spawn" /\ e = "kokoro" THEN "ENGINE_NOT_AVAILABLE"
  ELSE "SYNTHESIS_FAILED"

\* a timer callback whose reject takes effect on a settled promise as well
onDeadlineSettled(pc) ==
  [sig |-> IF pc \in {"exec", "probe"} THEN <<"SIGTERM", NoChild>> ELSE NoSig,
   code |-> "TIMEOUT"]

\* The callback of the setTimeout of executeSay, executeKokoro,
\* testPythonExecutable and verifyKokoroInstallation, which is never
\* cleared: pc is "exec" (a synthesis) or "probe" when the subprocess has not
\* closed, "timer" when the promise has been settled by 'close' or 'error'.
\* process.killed is false in each case, so kill and reject are called: kill
\* signals a child that still has its handle, reject acts on a pending
\* promise only.  A synthesis is rejected with the TTSError TIMEOUT, a probe
\* with a plain Error.
onDeadline(pc) ==
  [sig |-> IF pc \in {"exec", "probe"} THEN <<"SIGTERM", NoChild>> ELSE NoSig,
   code |-> IF pc = "exec" THEN "TIMEOUT" ELSE IF pc = "probe" THEN "Error" ELSE NULL]

\* The probes of KokoroEngine.detectPythonEnvironment, each a subprocess
\* under a promise: "testPythonExecutable" and "verifyKokoroInstallation".
ProbeKinds == {"testPythonExecutable", "verifyKokoroInstallation"}

\* whether the promise of the probe has a listener for the 'error' event of
\* its child: testPythonExecutable rejects with the error,
\* verifyKokoroInstallation installs 'close' and the timer only
probeListens(kind) == kind = "testPythonExecutable"

\* the 'close' listener of a probe with exit code 0 (exit0) and, for the
\* verification, SUCCESS in the output (marker): NULL when it resolves
probeClose(kind, exit0, marker) ==
  IF exit0 /\ (kind = "verifyKokoroInstallation" => marker) THEN NULL ELSE "Error"

\* ------------------------------------------------- the rate of the say command
\* A speed is held in tenths, as the schema's range 0.1 .. 3.0 is given.
SpeedScale == 10
MinSpeed == 1
MaxSpeed == 30
\* an omitted speed; calculateRate tests (!speed), which 0 passes as well
NoSpeed == 0
SpeedInputs == {NoSpeed} \cup (MinSpeed .. MaxSpeed)

DefaultRate == 200
RatePerUnit == 200
MinRate == 80
MaxRate == 400

Min(a, b) == IF a < b THEN a ELSE b
Max(a, b) == IF a > b THEN a ELSE b

\* Math.round of the quotient num / den: the nearest integer, a half upwards
Round(num, den) == (2 * num + den) \div (2 * den)

calculateRateUnclamped(speed) ==
  IF speed = NoSpeed THEN DefaultRate
  ELSE Round(speed * RatePerUnit, SpeedScale)

calculateRate(speed) ==
  IF speed = NoSpeed THEN DefaultRate
  ELSE LET rate == Round(speed * RatePerUnit, SpeedScale)
       IN  Max(MinRate, Min(MaxRate, rate))

\* ---------------------------------------------------------- the error codes
\* ErrorCodes of the types module: the codes a TTSError can carry
ErrorCodes ==
  {"ENGINE_NOT_AVAILABLE", "ENGINE_NOT_INITIALIZED", "ENGINE_INITIALIZATION_FAILED",
   "VOICE_NOT_FOUND", "TEXT_TOO_LONG", "SYNTHESIS_FAILED", "FILE_OPERATION_FAILED",
   "FILE_NOT_FOUND", "INVALID_PARAMETERS", "TIMEOUT", "MEMORY_LIMIT_EXCEEDED",
   "PLAYBACK_FAILED"}

\* ------------------------------------------------------------- synthesize
\* the engine fields become those of R
SetEngines(R) ==
  /\ initialized' = R.initialized
  /\ voices' = R.voices
  /\ pythonExecutable' = R.py

\* the lowest free slot, 0 when every slot is taken
FreeSlotIdx ==
  IF \E s \in Slots : reqs[s].pc = "free"
  THEN CHOOSE s \in Slots : reqs[s].pc = "free" /\ \A t \in Slots : t < s => reqs[t].pc # "free"
  ELSE 0

\* a handler that records the path of every synthesis, failed or not
handlerMostRecentAlways(recent, code, path) == path

\* synthesizeTextHandler after `await engine.synthesize(request)`: the
\* player's most recent file once the call has ended with `code`
handlerMostRecent(recent, code, path) == IF code = NULL THEN path ELSE recent

\* the record of a synthesize() call that has ended
SynthEv(c, code, spawned, initThrew, sig, why) ==
  [Ev(IF c.via = "tool" THEN "synthesize_text" ELSE "synthesize") EXCEPT
     !.code = code, !.engine = c.engine, !.spawned = spawned,
     !.sig = sig, !.arg = why,
     !.text = c.text, !.via = c.via,
     !.file = IF code = NULL THEN c.path ELSE NoFile,
     !.initThrew = initThrew,
     !.left = IF initThrew THEN {} ELSE leftBehind(c.engine, c.pc, code, why),
     !.handler = IF c.via = "tool" THEN "return" ELSE NULL,
     !.server = IF c.via = "tool" THEN CallTool("return") ELSE NULL]

\* A synthesize() call ends: with an AudioResult for `path` when code is
\* NULL, with the error `code` otherwise.  A call made by the
\* synthesize_text handler is answered as a payload.
\* sig is the signal sent to the subprocess and why the reason of a failure
\* after the subprocess.
FinishWith(c, code, spawned, initThrew, sig, why) ==
  /\ last' = SynthEv(c, code, spawned, initThrew, sig, why)
  /\ lastCompleted' = IF code = NULL THEN c.path ELSE lastCompleted
  /\ mostRecentFile' = IF c.via = "tool"
                       THEN handlerMostRecent(mostRecentFile, code, c.path)
                       ELSE mostRecentFile

FinishCall(c, code, spawned, initThrew) ==
  FinishWith(c, code, spawned, initThrew, NoSig, << >>)

\* what is left of a call that has been answered: pc is "timer" (the
\* deadline timer of its subprocess is pending) or "dying" (its subprocess
\* has been sent SIGTERM and has not ended)
Lingering(pc, e) == Call(pc, e, NoText, Absent, NULL, NoFile)

\* synthesize() of call c, from its text checks on, with the engine fields
\* S; spawned tells whether the call has spawned a subprocess before.  The
\* call either fails here or spawns its subprocess and waits in slot s.
Continue(s, c, S, spawned) ==
  \E fs \in FsSteps(c.engine, S, c.text, c.voice) :
    LET code == synthesizeChecks(c.engine, S, c.text, c.voice, fs)
        v    == resolveVoice(c.engine, S.voices[c.engine], c.voice).voice
    IN IF code # NULL
       THEN /\ reqs' = (IF s = 0 THEN reqs ELSE [reqs EXCEPT ![s] = FreeSlot])
            /\ FinishCall(c, code, spawned, FALSE)
       ELSE /\ s # 0
            /\ reqs' = [reqs EXCEPT ![s] = [c EXCEPT !.pc = "exec", !.voice = Absent,
                                                     !.path = OutputPath(c.engine, v)]]
            /\ last' = [Ev("spawn") EXCEPT !.engine = c.engine, !.via = c.via]
            /\ UNCHANGED <<lastCompleted, mostRecentFile>>

\* TTSEngine.synthesize is entered for call c
StartSynthesize(c) ==
  IF initialized[c.engine]
  THEN /\ Continue(FreeSlotIdx, c, EngineState, FALSE)
       /\ UNCHANGED engineVars
  ELSE IF c.engine = "macos" /\ platform # "darwin"
  THEN \* initialize() raises before any subprocess
       /\ FinishCall(c, "ENGINE_NOT_AVAILABLE", FALSE, TRUE)
       /\ UNCHANGED <<reqs, initialized, voices, pythonExecutable>>
  ELSE \* initialize() spawns its first probe and the call waits for it
       /\ FreeSlotIdx # 0
       /\ reqs' = [reqs EXCEPT ![FreeSlotIdx] = [c EXCEPT !.pc = "init"]]
       /\ last' = [Ev("spawn") EXCEPT !.engine = c.engine, !.via = c.via]
       /\ UNCHANGED <<lastCompleted, mostRecentFile, initialized, voices, pythonExecutable>>

\* the probes of the initialize() that call s waits for have ended
InitDone(s, o) ==
  /\ hostAlive
  /\ reqs[s].pc = "init"
  /\ LET c == reqs[s]
         R == initBody(c.engine, EngineState, platform, o)
     IN /\ SetEngines(R)
        /\ IF R.threw
           THEN /\ reqs' = [reqs EXCEPT ![s] = FreeSlot]
                /\ FinishCall(c, "ENGINE_NOT_AVAILABLE", TRUE, TRUE)
           ELSE Continue(s, c, R, TRUE)
  /\ UNCHANGED <<platform, engines, hostAlive, currentProcess, isPaused, currentFile, procs>>

\* the synthesis subprocess of call s has ended, or could not be spawned,
\* before its deadline; the timer stays
ExecDone(s, x) ==
  /\ hostAlive
  /\ reqs[s].pc = "exec"
  /\ LET c == reqs[s]
         why == execReason(c.engine, x)
     IN /\ reqs' = [reqs EXCEPT ![s] = Lingering("timer", c.engine)]
        /\ FinishWith(c, execCode(c.engine, x), TRUE, FALSE, NoSig,
                      IF why = NULL THEN << >> ELSE <<why>>)
  /\ UNCHANGED <<platform, engines, hostAlive, initialized, voices, pythonExecutable,
                 currentProcess, isPaused, currentFile, procs>>

\* the record of a probe that has settled
ProbeEv(kind, code, sig) ==
  [Ev(kind) EXCEPT !.engine = "kokoro", !.code = code, !.sig = sig, !.spawned = TRUE]

\* the deadline of the subprocess of call s expires
Deadline(s) ==
  /\ hostAlive
  /\ reqs[s].pc \in {"exec", "probe", "timer"}
  /\ LET c == reqs[s]
         r == onDeadline(c.pc)
     IN /\ reqs' = [reqs EXCEPT ![s] = IF r.sig = NoSig THEN FreeSlot
                                       ELSE [Lingering("dying", c.engine) EXCEPT
                                               !.via = IF c.pc = "probe" THEN c.via ELSE NULL]]
        /\ IF r.code = NULL
           THEN /\ last' = [Ev("deadline") EXCEPT !.engine = c.engine, !.sig = r.sig]
                /\ UNCHANGED <<lastCompleted, mostRecentFile>>
           ELSE IF c.pc = "probe"
           THEN /\ last' = ProbeEv(c.via, r.code, r.sig)
                /\ UNCHANGED <<lastCompleted, mostRecentFile>>
           ELSE FinishWith(c, r.code, TRUE, FALSE, r.sig, <<"deadline">>)
  /\ UNCHANGED <<platform, engines, hostAlive, initialized, voices, pythonExecutable,
                 currentProcess, isPaused, currentFile, procs>>

\* The subprocess that was sent SIGTERM at its deadline ends.  synthesize()
\* has unlinked the output path without waiting for that, so the subprocess
\* of a synthesis may still have created the file in between (wrote).
ChildGone(s, wrote) ==
  /\ reqs[s].pc = "dying"
  /\ reqs' = [reqs EXCEPT ![s] = FreeSlot]
  /\ last' = [Ev("exit") EXCEPT !.engine = reqs[s].engine,
                                !.left = IF wrote /\ reqs[s].via \notin ProbeKinds
                                         THEN {"output"} ELSE {}]
  /\ UNCHANGED <<platform, engines, hostAlive, initialized, voices, pythonExecutable,
                 currentProcess, isPaused, currentFile, procs, lastCompleted, mostRecentFile>>

\* A probe of the Kokoro engine is started: its child is spawned and its
\* timer set.  verifyKokoroInstallation rejects at once when no interpreter
\* is recorded.
StartProbe(kind) ==
  /\ hostAlive
  /\ IF kind = "verifyKokoroInstallation" /\ ~pythonExecutable
     THEN /\ last' = [ProbeEv(kind, "Error", NoSig) EXCEPT !.spawned = FALSE]
          /\ UNCHANGED reqs
     ELSE /\ FreeSlotIdx # 0
          /\ reqs' = [reqs EXCEPT ![FreeSlotIdx] =
                        Call("probe", "kokoro", NoText, Absent, kind, NoFile)]
          /\ last' = [Ev("spawn") EXCEPT !.engine = "kokoro", !.via = kind]
  /\ UNCHANGED <<platform, engines, hostAlive, initialized, voices, pythonExecutable,
                 currentProcess, isPaused, currentFile, procs, lastCompleted, mostRecentFile>>

\* the child of the probe of slot s closes before the deadline
ProbeClose(s, exit0, marker) ==
  /\ hostAlive
  /\ reqs[s].pc = "probe"
  /\ reqs' = [reqs EXCEPT ![s] = Lingering("timer", "kokoro")]
  /\ last' = ProbeEv(reqs[s].via, probeClose(reqs[s].via, exit0, marker), NoSig)
  /\ UNCHANGED <<platform, engines, hostAlive, initialized, voices, pythonExecutable,
                 currentProcess, isPaused, currentFile, procs, lastCompleted, mostRecentFile>>

\* The child of the probe of slot s could not be spawned: Node raises its
\* 'error' event.  With a listener the promise is rejected; without one the
\* event is an uncaught exception, which ends the host process.
ProbeError(s) ==
  /\ hostAlive
  /\ reqs[s].pc = "probe"
  /\ IF probeListens(reqs[s].via)
     THEN /\ reqs' = [reqs EXCEPT ![s] = Lingering("timer", "kokoro")]
          /\ last' = ProbeEv(reqs[s].via, "Error", NoSig)
          /\ UNCHANGED hostAlive
     ELSE /\ reqs' = [reqs EXCEPT ![s] = FreeSlot]
          /\ last' = [Ev("error") EXCEPT !.engine = "kokoro", !.via = reqs[s].via]
          /\ hostAlive' = FALSE
  /\ UNCHANGED <<platform, engines, initialized, voices, pythonExecutable,
                 currentProcess, isPaused, currentFile, procs, lastCompleted, mostRecentFile>>

\* a selection that falls back to the other engine for an explicit name
selectEngineFallback(preference, registry) ==
  IF preference = "macos" /\ "macos" \in registry THEN "macos"
  ELSE IF "kokoro" \in registry THEN "kokoro"
  ELSE IF "macos" \in registry THEN "macos"
  ELSE NULL

\* selectEngine of synthesize-text.ts: the name of the engine, NULL for none
selectEngine(preference, registry) ==
  IF preference = "macos" THEN (IF "macos" \in registry THEN "macos" ELSE NULL)
  ELSE IF preference = "kokoro" THEN (IF "kokoro" \in registry THEN "kokoro" ELSE NULL)
  ELSE IF "kokoro" \in registry THEN "kokoro"
  ELSE IF "macos" \in registry THEN "macos"
  ELSE NULL

\* a schema that also refuses a text of white space
schemaTrims(wellTyped, text) ==
  wellTyped /\ ~text.blank /\ text.len >= MinTextLength /\ text.len <= MaxTextLength

\* synthesizeTextSchema.parse: wellTyped tells whether the fields other
\* than text pass
schemaAccepts(wellTyped, text) ==
  wellTyped /\ text.len >= MinTextLength /\ text.len <= MaxTextLength

\* the record of a synthesize_text call answered before any engine ran
RouterEv(code, e, text, voice) ==
  [Ev("synthesize_text") EXCEPT !.code = code, !.engine = e, !.text = text,
      !.via = "tool", !.handler = "return",
      !.server = CallTool("return")]

\* synthesize_text {text, voice, engine}
ToolSynthesize(wellTyped, text, voice, preference) ==
  /\ Serving
  /\ IF ~schemaAccepts(wellTyped, text)
     THEN /\ last' = RouterEv("ZodError", NULL, text, voice)
          /\ UNCHANGED <<reqs, lastCompleted, mostRecentFile, initialized, voices, pythonExecutable>>
     ELSE LET e == selectEngine(preference, engines) IN
          IF e = NULL
          THEN /\ last' = RouterEv("ENGINE_NOT_AVAILABLE", NULL, text, voice)
               /\ UNCHANGED <<reqs, lastCompleted, mostRecentFile, initialized, voices, pythonExecutable>>
          ELSE StartSynthesize(Call("start", e, text, voice, "tool", NoFile))
  /\ UNCHANGED <<platform, engines, hostAlive, currentProcess, isPaused, currentFile, procs>>

\* TTSEngine.listVoices: initialize() first when not initialized
listVoices(e, S, plat, o) == initialize(e, S, plat, o)

\* ------------------------------------------------------------- server.ts
\* initializeEngines: each engine is constructed, asked isAvailable() and,
\* when available, initialized and put in the registry; an initialize()
\* that raises is logged and the engine left out.  The result: the engine
\* fields and the registry.
initializeEngines(S, plat, mAvail, mo, kAvail, ko) ==
  LET mA == isAvailable("macos", plat, mAvail)
      R1 == IF mA THEN initialize("macos", S, plat, mo) ELSE Outcome(S, FALSE, FALSE)
      kA == isAvailable("kokoro", plat, kAvail)
      R2 == IF kA THEN initialize("kokoro", R1, plat, ko) ELSE Outcome(R1, FALSE, FALSE)
  IN [initialized |-> R2.initialized, voices |-> R2.voices, py |-> R2.py,
      registry |-> (IF mA /\ ~R1.threw THEN {"macos"} ELSE {})
                   \cup (IF kA /\ ~R2.threw THEN {"kokoro"} ELSE {})]

\* main(): the engines are initialized, then the server connects
Startup ==
  /\ engines = Unset
  /\ hostAlive
  /\ \E mAvail \in BOOLEAN, kAvail \in BOOLEAN :
     \E mo \in Probes("macos", EngineState, platform, isAvailable("macos", platform, mAvail)),
        ko \in Probes("kokoro", EngineState, platform, isAvailable("kokoro", platform, kAvail)) :
       LET R == initializeEngines(EngineState, platform, mAvail, mo, kAvail, ko) IN
       /\ SetEngines(R)
       /\ engines' = R.registry
  /\ last' = Ev("startup")
  /\ UNCHANGED <<platform, hostAlive, currentProcess, isPaused, currentFile,
                 mostRecentFile, procs, reqs, lastCompleted>>

\* listVoicesHandler: listVoices() of every registered engine the filter
\* names, in the registry's order; an engine that raises is skipped.
listVoicesHandler(S, plat, registry, filter, mo, ko) ==
  LET wanted(e) == e \in registry /\ filter \in {"all", e}
      R1 == IF wanted("macos") THEN listVoices("macos", S, plat, mo) ELSE Outcome(S, FALSE, FALSE)
      R2 == IF wanted("kokoro") THEN listVoices("kokoro", R1, plat, ko) ELSE Outcome(R1, FALSE, FALSE)
  IN Outcome(R2, FALSE, R1.spawned \/ R2.spawned)

\* list_voices {engine}; valid tells whether the schema accepts the arguments
ToolListVoices(valid, filter) ==
  /\ Serving
  /\ IF ~valid
     THEN /\ last' = [Ev("list_voices") EXCEPT !.code = "ZodError", !.handler = "return",
                                               !.server = CallTool("return")]
          /\ UNCHANGED engineVars
     ELSE \E mo \in Probes("macos", EngineState, platform,
                             "macos" \in engines /\ filter \in {"all", "macos"}),
             ko \in Probes("kokoro", EngineState, platform,
                             "kokoro" \in engines /\ filter \in {"all", "kokoro"}) :
            LET R == listVoicesHandler(EngineState, platform, engines, filter, mo, ko) IN
            /\ SetEngines(R)
            /\ last' = [Ev("list_voices") EXCEPT !.handler = "return",
                                                 !.server = CallTool("return"),
                                                 !.spawned = R.spawned]
  /\ UNCHANGED <<platform, engines, hostAlive, currentProcess, isPaused, currentFile,
                 mostRecentFile, procs, reqs, lastCompleted>>

\* healthCheckHandler: for every registered engine isAvailable() and, when
\* available, listVoices(); whatever raises is reported in the payload.
healthCheckHandler(S, plat, registry, mAvail, mo, kAvail, ko) ==
  LET R1 == IF "macos" \in registry /\ isAvailable("macos", plat, mAvail)
            THEN listVoices("macos", S, plat, mo) ELSE Outcome(S, FALSE, FALSE)
      R2 == IF "kokoro" \in registry /\ isAvailable("kokoro", plat, kAvail)
            THEN listVoices("kokoro", R1, plat, ko) ELSE Outcome(R1, FALSE, FALSE)
  IN Outcome(R2, FALSE, registry # {})

\* health_check
ToolHealthCheck ==
  /\ Serving
  /\ \E mAvail \in BOOLEAN, kAvail \in BOOLEAN :
     \E mo \in Probes("macos", EngineState, platform,
                       "macos" \in engines /\ isAvailable("macos", platform, mAvail)),
        ko \in Probes("kokoro", EngineState, platform,
                       "kokoro" \in engines /\ isAvailable("kokoro", platform, kAvail)) :
       LET R == healthCheckHandler(EngineState, platform, engines, mAvail, mo, kAvail, ko) IN
       /\ SetEngines(R)
       /\ last' = [Ev("health_check") EXCEPT !.handler = "return",
                                             !.server = CallTool("return"),
                                             !.spawned = R.spawned]
  /\ UNCHANGED <<platform, engines, hostAlive, currentProcess, isPaused, currentFile,
                 mostRecentFile, procs, reqs, lastCompleted>>

\* ------------------------------------------------- the engines called directly
\* engine.synthesize(request) by a caller other than the router, one that
\* lets a synthesis and the timer of its subprocess end before it asks for
\* the next
DirectSynthesize(e, text, voice) ==
  /\ \A s \in Slots : reqs[s].pc = "free"
  /\ StartSynthesize(Call("start", e, text, voice, "direct", NoFile))
  /\ UNCHANGED <<platform, engines, hostAlive, currentProcess, isPaused, currentFile, procs>>

\* engine.initialize()
DirectInitialize(e, o) ==
  /\ LET R == initialize(e, EngineState, platform, o) IN
     /\ SetEngines(R)
     /\ last' = [Ev("initialize") EXCEPT !.engine = e, !.initThrew = R.threw,
                                         !.spawned = R.spawned, !.via = "direct"]
  /\ UNCHANGED <<platform, engines, hostAlive, currentProcess, isPaused, currentFile,
                 mostRecentFile, procs, reqs, lastCompleted>>

\* engine.isAvailable()
DirectIsAvailable(e, avail) ==
  /\ LET R == isAvailableCall(e, EngineState, platform, avail) IN
     /\ SetEngines(R.after)
     /\ last' = [Ev("isAvailable") EXCEPT !.engine = e, !.initThrew = R.after.threw,
                                          !.spawned = R.after.spawned, !.via = "direct",
                                          !.result = <<R.result>>]
  /\ UNCHANGED <<platform, engines, hostAlive, currentProcess, isPaused, currentFile,
                 mostRecentFile, procs, reqs, lastCompleted>>

\* engine.cleanup()
DirectCleanup(e) ==
  /\ SetEngines(Outcome(cleanup(e, EngineState), FALSE, FALSE))
  /\ last' = [Ev("cleanup") EXCEPT !.engine = e, !.via = "direct"]
  /\ UNCHANGED <<platform, engines, hostAlive, currentProcess, isPaused, currentFile,
                 mostRecentFile, procs, reqs, lastCompleted>>

\* ----------------------------------------------------------- specifications
\* The server: main(), then tool calls, the subprocesses and their events.
Next ==
  \/ Startup
  \/ \E a \in AudioPathInputs : ToolPlay(a)
  \/ ToolPause
  \/ ToolResume
  \/ ToolStop
  \/ ToolPlayAudioInvalid
  \/ \E t \in RouterTexts, v \in VoiceInputs, p \in PreferenceInputs :
       ToolSynthesize(TRUE, t, v, p)
  \/ ToolSynthesize(FALSE, Text(MinTextLength, FALSE), Absent, "auto")
  \/ \E s \in Slots : \E o \in InitProbes(reqs[s].engine) : InitDone(s, o)
  \/ \E s \in Slots, x \in ExecOutcomes : ExecDone(s, x)
  \/ \E s \in Slots : Deadline(s)
  \/ \E s \in Slots, wrote \in BOOLEAN : ChildGone(s, wrote)
  \/ \E ok \in BOOLEAN, f \in {"all", "macos", "kokoro"} : ToolListVoices(ok, f)
  \/ ToolHealthCheck
  \/ \E p \in Pids : ProcessExit(p)
  \/ \E p \in Pids : Terminate(p)
  \/ \E p \in Pids : CloseEvent(p)
  \/ \E p \in Pids : ErrorEvent(p)

Spec == Init /\ [][Next]_vars

\* The server with a client that only plays: no synthesis, no listing.
NextPlayer ==
  \/ \E a \in AudioPathInputs : ToolPlay(a)
  \/ ToolPause
  \/ ToolResume
  \/ ToolStop
  \/ ToolPlayAudioInvalid
  \/ \E p \in Pids : ProcessExit(p)
  \/ \E p \in Pids : Terminate(p)
  \/ \E p \in Pids : CloseEvent(p)
  \/ \E p \in Pids : ErrorEvent(p)

\* The server on a Mac with the macOS engine registered, connected and idle:
\* before any synthesis, or after one synthesize_text that succeeded.
InitPlayer ==
  LET alex == OutputPath("macos", MacVoice("Alex"))
      done == Call("exec", "macos", Text(MinTextLength, FALSE), Absent, "tool", alex)
  IN
  /\ platform = "darwin"
  /\ engines = {"macos"}
  /\ hostAlive = TRUE
  /\ initialized = [e \in EngineNames |-> e = "macos"]
  /\ voices = [e \in EngineNames |->
                 IF e = "macos" THEN << MacVoice("Anna"), MacVoice("Alex") >> ELSE << >>]
  /\ pythonExecutable = FALSE
  /\ currentProcess = NoChild
  /\ isPaused = FALSE
  /\ currentFile = NoFile
  /\ procs = [p \in Pids |-> NoProc]
  /\ \/ /\ mostRecentFile = NoFile /\ lastCompleted = NoFile /\ last = Ev("startup")
        /\ reqs = [s \in Slots |-> FreeSlot]
     \/ /\ mostRecentFile = alex /\ lastCompleted = alex
        /\ last = SynthEv(done, NULL, TRUE, FALSE, NoSig, << >>)
        /\ reqs = [s \in Slots |-> IF s = 1 THEN Lingering("timer", "macos")
                                   ELSE FreeSlot]

SpecPlayer == InitPlayer /\ [][NextPlayer]_vars

\* The server with a client that synthesizes, lists and asks for health.
NextRouter ==
  \/ Startup
  \/ \E t \in RouterTexts, v \in VoiceInputs, p \in PreferenceInputs :
       ToolSynthesize(TRUE, t, v, p)
  \/ ToolSynthesize(FALSE, Text(MinTextLength, FALSE), Absent, "auto")
  \/ \E s \in Slots : \E o \in InitProbes(reqs[s].engine) : InitDone(s, o)
  \/ \E s \in Slots, x \in ExecOutcomes : ExecDone(s, x)
  \/ \E s \in Slots : Deadline(s)
  \/ \E s \in Slots, wrote \in BOOLEAN : ChildGone(s, wrote)
  \/ \E ok \in BOOLEAN, f \in {"all", "macos", "kokoro"} : ToolListVoices(ok, f)
  \/ ToolHealthCheck

SpecRouter == Init /\ [][NextRouter]_vars

\* The two engine objects with a caller of their own methods.
NextEngine ==
  \/ \E e \in EngineNames, t \in TextInputs, v \in VoiceInputs : DirectSynthesize(e, t, v)
  \/ \E e \in EngineNames : \E o \in Probes(e, EngineState, platform, TRUE) :
       DirectInitialize(e, o)
  \/ \E e \in EngineNames : DirectCleanup(e)
  \/ \E e \in EngineNames, avail \in BOOLEAN : DirectIsAvailable(e, avail)
  \/ \E s \in Slots : \E o \in InitProbes(reqs[s].engine) : InitDone(s, o)
  \/ \E s \in Slots, x \in ExecOutcomes : ExecDone(s, x)
  \/ \E s \in Slots : Deadline(s)
  \/ \E s \in Slots, wrote \in BOOLEAN : ChildGone(s, wrote)

SpecEngine == Init /\ [][NextEngine]_vars

\* MacOSEngine.calculateRate applied to a speed, the speed and the rate of
\* the application before it kept for comparison.
CalculateRate(speed) ==
  /\ last' = [Ev("calculateRate") EXCEPT
                !.arg = <<speed>> \o (IF last.op = "calculateRate"
                                      THEN <<last.arg[1]>> ELSE << >>),
                !.result = <<calculateRate(speed)>> \o
                             (IF last.op = "calculateRate"
                              THEN <<last.result[1]>> ELSE << >>)]
  /\ UNCHANGED <<platform, engines, hostAlive, engineVars, playerVars, procs, synthVars>>

NextRate == \E speed \in SpeedInputs : CalculateRate(speed)

SpecRate == Init /\ [][NextRate]_vars

\* The engines with the timers Node runs: the deadline timer of a
\* subprocess is never cleared, so its callback is called in the end.
FairEngine == SpecEngine /\ \A s \in Slots : WF_vars(Deadline(s))

\* The server asked again and again for synthesize_text {text: "Hello,
\* world!"}: no voice, no engine.
NextAuto ==
  \/ Startup
  \/ ToolSynthesize(TRUE, Text(MinTextLength, FALSE), Absent, "auto")
  \/ \E s \in Slots : \E o \in InitProbes(reqs[s].engine) : InitDone(s, o)
  \/ \E s \in Slots, x \in ExecOutcomes : ExecDone(s, x)
  \/ \E s \in Slots : Deadline(s)
  \/ \E s \in Slots, wrote \in BOOLEAN : ChildGone(s, wrote)

SpecAuto == Init /\ [][NextAuto]_vars

\* ------------------------------------------------ listVoices called directly
\* the record of a listVoices() that has ended: the catalog it returned,
\* when it returned one, before the catalog that the listVoices() of the
\* same engine recorded just before it returned
ListEv(e, R) ==
  [Ev("listVoices") EXCEPT
     !.engine = e, !.initThrew = R.threw, !.spawned = R.spawned, !.via = "direct",
     !.result = IF R.threw THEN << >>
                ELSE <<R.voices[e]>> \o
                     (IF last.op = "listVoices" /\ last.engine = e /\ ~last.initThrew
                      THEN <<last.result[1]>> ELSE << >>)]

\* engine.listVoices(): it returns or raises at once on an initialized
\* engine and on the macOS engine off darwin; otherwise its initialize() has
\* spawned the first probe and the call waits in a slot.
DirectListVoices(e) ==
  /\ IF initialized[e] \/ (e = "macos" /\ platform # "darwin")
     THEN LET R == listVoices(e, EngineState, platform, NoProbe) IN
          /\ SetEngines(R)
          /\ last' = ListEv(e, R)
          /\ UNCHANGED reqs
     ELSE /\ FreeSlotIdx # 0
          /\ reqs' = [reqs EXCEPT ![FreeSlotIdx] =
                        Call("listinit", e, NoText, Absent, "direct", NoFile)]
          /\ UNCHANGED <<last, initialized, voices, pythonExecutable>>
  /\ UNCHANGED <<platform, engines, hostAlive, currentProcess, isPaused, currentFile,
                 mostRecentFile, procs, lastCompleted>>

\* the probes of the initialize() that the listVoices() of slot s waits for
\* have ended: the initialize() goes on from the fields as they are now
ListVoicesDone(s, o) ==
  /\ reqs[s].pc = "listinit"
  /\ LET e == reqs[s].engine
         R == initBody(e, EngineState, platform, o)
     IN /\ SetEngines(R)
        /\ last' = ListEv(e, R)
  /\ reqs' = [reqs EXCEPT ![s] = FreeSlot]
  /\ UNCHANGED <<platform, engines, hostAlive, currentProcess, isPaused, currentFile,
                 mostRecentFile, procs, lastCompleted>>

\* The two engine objects with callers of listVoices() that do not wait for
\* one another.
NextList ==
  \/ \E e \in EngineNames : DirectListVoices(e)
  \/ \E s \in Slots : \E o \in InitProbes(reqs[s].engine) : ListVoicesDone(s, o)
  \/ \E e \in EngineNames : DirectCleanup(e)

SpecList == Init /\ [][NextList]_vars

\* The server with its synthesis subprocesses and the probes of the Kokoro
\* engine, each under its promise and its timer.
NextSettle ==
  \/ NextAuto
  \/ \E kind \in ProbeKinds : StartProbe(kind)
  \/ \E s \in Slots, exit0 \in BOOLEAN, marker \in BOOLEAN : ProbeClose(s, exit0, marker)
  \/ \E s \in Slots : ProbeError(s)

SpecSettle == Init /\ [][NextSettle]_vars

\* The playing client with the scheduling the operating system and Node
\* give: afplay comes to the end of its file, a running child with a
\* pending SIGTERM is terminated, and the 'close' and 'error' events of a
\* child are raised.  Nothing obliges the client to send a request.
FairPlayer ==
  /\ SpecPlayer
  /\ \A p \in Pids : /\ WF_vars(ProcessExit(p))
                      /\ WF_vars(Terminate(p))
                      /\ WF_vars(CloseEvent(p))
                      /\ WF_vars(ErrorEvent(p))

\* ------------------------------------------------------------------ claims
ToolOps == {"play", "pause", "resume", "stop", "play_audio",
            "synthesize_text", "list_voices", "health_check"}

\* the children that are alive and not about to end: a running child with
\* a pending SIGTERM is counted as ended already
Playing == {p \in Pids : Alive(p) /\ ~(procs[p].st = "running" /\ procs[p].term)}

\* C1: at most one playback subprocess spawned by the player is alive at
\* any time, a child that has been told to end and can act on it not counted.
AtMostOnePlayback == Cardinality(Playing) <= 1

\* C2: after a stop that found a tracked subprocess, that subprocess
\* eventually is no longer alive.
StopTerminatesChild ==
  \A p \in Pids : (last.op = "stop" /\ last.sig = <<"SIGTERM", p>>) ~> ~Alive(p)

\* C3: a pause with no tracked process or while paused, and a resume with
\* no tracked process or while not paused, send no signal, raise no error
\* and leave the player's fields and its children as they were; the pause
\* with no tracked process answers "stopped", the resume answers "playing"
\* when a process is tracked and "stopped" otherwise.
PauseResumeNoOps ==
  [][ /\ (last'.op = "pause" /\ (currentProcess = NoChild \/ isPaused)) =>
           /\ last'.code = NULL /\ last'.server = "result"
           /\ last'.sig = NoSig
           /\ currentProcess = NoChild => last'.status = "stopped"
           /\ UNCHANGED <<playerVars, procs>>
      /\ (last'.op = "resume" /\ (currentProcess = NoChild \/ ~isPaused)) =>
           /\ last'.code = NULL /\ last'.server = "result"
           /\ last'.sig = NoSig
           /\ last'.status = (IF currentProcess # NoChild THEN "playing" ELSE "stopped")
           /\ UNCHANGED <<playerVars, procs>> ]_vars

\* a pause has just been answered as a no-op while the playback is paused
PausedTwice ==
  /\ last.op = "pause" /\ last.sig = NoSig /\ last.status = "stopped"
  /\ currentProcess # NoChild /\ isPaused
  /\ procs[currentProcess].st = "stopped"

\* C4: a play with no audioPath when no synthesis has succeeded fails with
\* FILE_NOT_FOUND, spawns nothing, sends no signal and leaves the player's
\* fields and its children as they were.
PlayWithoutFileFails ==
  [][ \A a \in {NoFile, EmptyPath} :
        (ToolPlay(a) /\ lastCompleted = NoFile) =>
           /\ last'.op = "play"
           /\ last'.code = "FILE_NOT_FOUND"
           /\ last'.sig = NoSig
           /\ UNCHANGED <<playerVars, procs>> ]_vars

\* a play has just failed for want of a file while a playback is in progress
PlayFailedWhilePlaying ==
  /\ last.op = "play" /\ last.code = "FILE_NOT_FOUND"
  /\ lastCompleted = NoFile
  /\ currentProcess # NoChild /\ Alive(currentProcess)
  /\ currentFile = << "/tmp/user.aiff" >>

\* C5 as stated: after a play that started a playback, the file played is
\* both the current file and the most recent file.
PlayRecordsMostRecent ==
  (last.op = "play" /\ last.code = NULL) =>
     (currentFile = last.file /\ mostRecentFile = last.file)

\* C5: a play with an explicit path records the file as the current file and
\* leaves the most recent file as it was; a play with no audioPath plays
\* the file of the last successful synthesis and fails with FILE_NOT_FOUND
\* when there has been none.
PlayKeepsMostRecent ==
  [][ \A a \in AudioPathInputs :
        ToolPlay(a) =>
          /\ mostRecentFile' = mostRecentFile
          /\ IF ~Falsy(a)
             THEN last'.code = NULL /\ last'.file = a /\ currentFile' = a
             ELSE IF lastCompleted = NoFile
             THEN last'.code = "FILE_NOT_FOUND"
             ELSE last'.code = NULL /\ last'.file = lastCompleted
                  /\ currentFile' = lastCompleted ]_vars

\* a play with an explicit path has just started a playback, and the most
\* recent file still is the synthesized one
PlayedOtherThanRecent ==
  /\ last.op = "play" /\ last.code = NULL
  /\ last.file = << "/tmp/user.aiff" >>
  /\ currentFile = << "/tmp/user.aiff" >>
  /\ mostRecentFile = OutputPath("macos", MacVoice("Alex"))

\* C6: in every state of the server a play with no audioPath plays the file
\* of the successful synthesis that completed last, and fails with
\* FILE_NOT_FOUND when none has succeeded; so a synthesis that fails leaves
\* that file as it was.
DefaultPlayIsLastSynthesis ==
  LET A == play(Player, NoFile, FreshPid, TRUE) IN
  /\ mostRecentFile = lastCompleted
  /\ IF lastCompleted = NoFile
     THEN A.code = "FILE_NOT_FOUND"
     ELSE A.code = NULL /\ A.played = lastCompleted /\ A.file = lastCompleted

\* a synthesis has just failed after its subprocess, while another one is
\* waiting for its own and an earlier one has succeeded with another file
FailedAmongOverlapping ==
  /\ last.op = "synthesize_text" /\ last.code = "SYNTHESIS_FAILED" /\ last.spawned
  /\ lastCompleted # NoFile
  /\ \E s \in Slots : reqs[s].pc = "exec" /\ reqs[s].path # lastCompleted

\* C7: every tool call ends with a result object returned by the server's
\* tool-call handler.
EveryToolCallReturns == last.op \in ToolOps => last.server = "result"

\* the engine the claim names for a preference and a registry
ClaimedEngine(preference, registry) ==
  CASE preference = "auto" ->
         (IF "kokoro" \in registry THEN "kokoro"
          ELSE IF "macos" \in registry THEN "macos" ELSE NULL)
    [] OTHER -> (IF preference \in registry THEN preference ELSE NULL)

\* C8: for every registry the server can hold, selectEngine gives for an
\* explicit name that engine when registered and none otherwise, for "auto"
\* kokoro, else macos, else none; and a request for which none is selected
\* is answered ENGINE_NOT_AVAILABLE without any subprocess.
SelectionPolicy ==
  /\ engines # Unset =>
       \A p \in PreferenceInputs : selectEngine(p, engines) = ClaimedEngine(p, engines)
  /\ (last.op = "synthesize_text" /\ last.code # "ZodError") =>
       /\ last.engine \in engines \cup {NULL}
       /\ last.engine = NULL => (last.code = "ENGINE_NOT_AVAILABLE" /\ ~last.spawned)

\* with macos registered alone, a synthesize_text request has just been
\* refused for want of its engine
ExplicitNameRefused ==
  /\ engines = {"macos"}
  /\ last.op = "synthesize_text" /\ last.engine = NULL
  /\ last.code = "ENGINE_NOT_AVAILABLE"

\* C9: for a synthesize_text request that ends in a validation error no
\* subprocess has been spawned.
ValidationSpawnsNothing ==
  (last.op = "synthesize_text"
     /\ last.code \in {"ZodError", "INVALID_PARAMETERS", "TEXT_TOO_LONG"})
    => ~last.spawned

\* C10 as stated: synthesize() of a text of more than MaxTextLength
\* characters fails with TEXT_TOO_LONG.
LongTextIsTooLong ==
  (last.op = "synthesize" /\ last.text.len > MaxTextLength) => last.code = "TEXT_TOO_LONG"

\* C10: synthesize() of a text of more than MaxTextLength characters fails
\* with ENGINE_NOT_AVAILABLE when the initialize() it runs first raises,
\* else with INVALID_PARAMETERS when the text is all white space, else with
\* TEXT_TOO_LONG.
LongTextOutcome ==
  (last.op = "synthesize" /\ last.text.len > MaxTextLength) =>
     last.code = (IF last.initThrew THEN "ENGINE_NOT_AVAILABLE"
                  ELSE IF last.text.blank THEN "INVALID_PARAMETERS"
                  ELSE "TEXT_TOO_LONG")

\* synthesize() of a long text of white space has just failed
LongBlankRejected ==
  /\ last.op = "synthesize"
  /\ last.text = Text(MaxTextLength + 1, TRUE)
  /\ last.code = "INVALID_PARAMETERS"

OmittedVoiceResolves ==
  last.op \in {"synthesize_text", "synthesize"} => last.code # "TypeError"

\* C13: for every speed of 0.1 .. 3.0 the rate is round(speed * 200) brought
\* into 80 .. 400; so it lies in 80 .. 400, is 80 for 0.1, 200 for 1.0 and
\* 400 for 3.0, and does not decrease when the speed grows; an omitted speed
\* gives 200.
RateIsClampedProduct ==
  last.op = "calculateRate" =>
    LET speed == last.arg[1]
        rate  == last.result[1]
        product == (speed * 200) \div 10
    IN  /\ speed = NoSpeed => rate = 200
        /\ speed # NoSpeed =>
             /\ (speed * 200) % 10 = 0
             /\ rate = (IF product < 80 THEN 80 ELSE IF product > 400 THEN 400 ELSE product)
             /\ rate >= 80 /\ rate <= 400
             /\ speed = 1 => rate = 80
             /\ speed = 10 => rate = 200
             /\ speed = 30 => rate = 400
        /\ (Len(last.arg) = 2 /\ speed # NoSpeed /\ last.arg[2] # NoSpeed
              /\ last.arg[2] <= speed) => last.result[2] <= rate

\* the rate of 3.0 has just been calculated after the rate of 0.1
RateCappedAfterFloored ==
  /\ last.op = "calculateRate"
  /\ last.arg = <<30, 1>>
  /\ last.result = <<400, 80>>

\* C14: once a synthesis has failed no file exists at the output path of
\* the request, and the subprocess that is still ending leaves none there.
FailedLeavesNoOutput ==
  /\ (last.op \in {"synthesize", "synthesize_text"} /\ last.code # NULL) =>
        "output" \notin last.left
  /\ last.op = "exit" => "output" \notin last.left

\* C15: the deadline of a synthesis subprocess that has not closed sends it
\* SIGTERM and fails the synthesis with TIMEOUT; the deadline of one that
\* has closed, and the close itself, never give TIMEOUT, nothing else than
\* a deadline does, and no synthesis waits for its subprocess for ever.
DeadlineEnforced ==
  /\ [][ /\ \A s \in Slots :
              Deadline(s) =>
                IF reqs[s].pc = "exec"
                THEN /\ last'.op \in {"synthesize", "synthesize_text"}
                     /\ last'.code = "TIMEOUT"
                     /\ last'.sig = <<"SIGTERM", NoChild>>
                     /\ reqs'[s].pc = "dying"
                ELSE /\ last'.code = NULL
                     /\ last'.sig = NoSig
                     /\ reqs'[s].pc = "free"
                     /\ UNCHANGED <<lastCompleted, mostRecentFile>>
         /\ \A s \in Slots, x \in ExecOutcomes :
              ExecDone(s, x) => last'.code # "TIMEOUT"
         /\ (last'.code = "TIMEOUT" /\ last' # last) =>
              \E s \in Slots : reqs[s].pc = "exec" /\ Deadline(s) ]_vars
  /\ \A s \in Slots : (reqs[s].pc = "exec") ~> (reqs[s].pc # "exec")

\* a Kokoro synthesis has just timed out, its subprocess signalled and
\* still ending
TimedOutAndSignalled ==
  /\ last.op = "synthesize" /\ last.engine = "kokoro"
  /\ last.code = "TIMEOUT" /\ last.sig = <<"SIGTERM", NoChild>>
  /\ \E s \in Slots : reqs[s].pc = "dying" /\ reqs[s].engine = "kokoro"

\* C16: a Kokoro synthesis whose subprocess closes succeeds only if the exit
\* code is 0 and the output holds the success marker; in every other case it
\* fails with SYNTHESIS_FAILED and gives no file.
MarkerRequired ==
  [][ \A s \in Slots, x \in ExecOutcomes :
        (ExecDone(s, x) /\ reqs[s].engine = "kokoro" /\ ~x.error) =>
           /\ last'.code = NULL => (x.exit0 /\ x.marker)
           /\ ~(x.exit0 /\ x.marker) =>
                /\ last'.code = "SYNTHESIS_FAILED"
                /\ last'.file = NoFile
                /\ "output" \notin last'.left
                /\ UNCHANGED <<lastCompleted, mostRecentFile>> ]_vars

\* a Kokoro synthesis has just failed because its subprocess ended with exit
\* code 0 and no success marker
ExitZeroWithoutMarker ==
  /\ last.op = "synthesize" /\ last.engine = "kokoro"
  /\ last.code = "SYNTHESIS_FAILED" /\ last.arg = <<"marker">>

IsAvailableChangesNothing ==
  [][ last'.op = "isAvailable" =>
        /\ UNCHANGED engineVars
        /\ ~last'.initThrew
        /\ last'.result \in {<<TRUE>>, <<FALSE>>} ]_vars

\* the Kokoro engine has just answered that it is available, before any
\* initialization: no interpreter recorded, no catalog
AvailableBeforeInitialize ==
  /\ last.op = "isAvailable" /\ last.engine = "kokoro" /\ last.result = <<TRUE>>
  /\ ~initialized["kokoro"] /\ ~pythonExecutable /\ voices["kokoro"] = << >>

\* a registered engine that is ready to synthesize: initialized, with a
\* catalog and, for Kokoro, an interpreter
Able(e) ==
  /\ e \in engines /\ initialized[e] /\ voices[e] # << >>
  /\ e = "kokoro" => pythonExecutable

\* C19: while a registered engine is able to synthesize, a synthesize_text
\* request that names no engine is not refused for want of an engine or of a
\* voice: it fails, if at all, by its subprocess or the file system.
AutoServedWhenAble ==
  (last.op = "synthesize_text" /\ \E e \in EngineNames : Able(e)) =>
     (last.code \in {"TypeError", "ENGINE_NOT_AVAILABLE", "VOICE_NOT_FOUND"} =>
        last.arg = <<"spawn">>)

\* the status getStatus reports
Status == getStatus(currentProcess, isPaused)

\* C20: the status changes only from stopped to playing, from playing to
\* paused or stopped, and from paused to playing or stopped, so never from
\* stopped to paused; and while it is stopped the current file is none and
\* the pause flag is false.
StatusTransitions ==
  /\ [][ Status' # Status =>
           <<Status, Status'>> \in {<<"stopped", "playing">>, <<"playing", "paused">>,
                                    <<"paused", "playing">>, <<"playing", "stopped">>,
                                    <<"paused", "stopped">>} ]_vars
  /\ [](Status = "stopped" => (currentFile = NoFile /\ ~isPaused))

\* a stop has just ended a paused playback: the status is stopped, the
\* child it signalled still suspended
StoppedWhilePaused ==
  /\ last.op = "stop" /\ Status = "stopped"
  /\ \E p \in Pids : last.sig = <<"SIGTERM", p>> /\ procs[p].st = "stopped"

\* C21: the voice a synthesize() with an explicit voice goes on to use has a
\* name or an id equal, letter case apart, to the requested string.
ExplicitVoiceIsExact ==
  [][ \A e \in EngineNames, t \in TextInputs, v \in VoiceInputs \ {Absent} :
        \A s \in Slots :
          (DirectSynthesize(e, t, v) /\ reqs[s].pc # "exec" /\ reqs'[s].pc = "exec") =>
             \E i \in DOMAIN voices[e] :
               /\ reqs'[s].path = OutputPath(e, voices[e][i])
               /\ \/ EqualIgnoreCase(voices[e][i].name, v)
                  \/ EqualIgnoreCase(voices[e][i].id, v) ]_vars

\* C22 as stated: of two listVoices() of an engine that return one after the
\* other with no cleanup in between, the second returns the catalog the
\* first returned.
CatalogIsStable ==
  (last.op = "listVoices" /\ Len(last.result) = 2) => last.result[1] = last.result[2]

\* C22: a listVoices() of an initialized engine returns the engine's catalog
\* without a subprocess and changes nothing, so two in a row return the same;
\* one of an engine not initialized runs initialize() first and returns the
\* catalog as it is afterwards, empty when Kokoro's initialize() failed, or
\* raises what the macOS initialize() raised; every voice returned carries
\* the tag of its engine.
ListVoicesContract ==
  [][ /\ \A e \in EngineNames :
           DirectListVoices(e) =>
             IF initialized[e]
             THEN /\ last'.op = "listVoices" /\ ~last'.initThrew /\ ~last'.spawned
                  /\ last'.result[1] = voices[e]
                  /\ Len(last'.result) = 2 => last'.result[2] = last'.result[1]
                  /\ UNCHANGED engineVars
             ELSE \/ last'.op = "listVoices" /\ last'.initThrew /\ e = "macos"
                  \/ \E s \in Slots : reqs[s].pc = "free" /\ reqs'[s].pc = "listinit"
      /\ \A s \in Slots : \A o \in InitProbes(reqs[s].engine) :
           ListVoicesDone(s, o) =>
             /\ last'.op = "listVoices" /\ last'.spawned
             /\ last'.initThrew => reqs[s].engine = "macos"
             /\ ~last'.initThrew => last'.result[1] = voices'[reqs[s].engine]
             /\ (~last'.initThrew /\ ~initialized'[reqs[s].engine]) =>
                  (reqs[s].engine = "kokoro" /\ last'.result[1] = << >>)
      /\ (last'.op = "listVoices" /\ ~last'.initThrew) =>
           \A i \in DOMAIN last'.result[1] :
              last'.result[1][i].engine = last'.engine ]_vars

\* the Kokoro engine has just returned its full catalog to a listVoices()
\* for the second time in a row
ListedTwice ==
  /\ last.op = "listVoices" /\ last.engine = "kokoro"
  /\ last.result = <<KokoroCatalog, KokoroCatalog>>
  /\ initialized["kokoro"]

\* C23: once a synthesize() of the Kokoro engine has returned or raised, the
\* temp script written for it exists no more.
ScriptDeleted ==
  (last.op \in {"synthesize", "synthesize_text"} /\ last.engine = "kokoro") =>
     "script" \notin last.left

\* C24: a synthesize() of an engine that fails, fails with a TTSError that
\* carries one of the ErrorCodes and the name of the engine.
FailuresAreTagged ==
  (last.op = "synthesize" /\ last.code # NULL) =>
     (last.code \in ErrorCodes /\ last.engine \in EngineNames)

\* C25: the 'close' event of a child that is not the tracked one leaves the
\* tracked process, the current file and the pause flag as they were.
LateCloseKeepsTracking ==
  [][ \A p \in Pids :
        (CloseEvent(p) /\ currentProcess # p) =>
           UNCHANGED <<currentProcess, currentFile, isPaused>> ]_vars

\* C26: the status a play, pause, resume or stop has answered is the status
\* getStatus reports once the action has ended.
AnsweredStatusIsStatus ==
  (last.op \in {"play", "pause", "resume", "stop"} /\ last.code = NULL) =>
     last.status = Status

\* C27: every engine main() has put in the registry is initialized, with a
\* catalog that is not empty and, for Kokoro, an interpreter recorded.
RegisteredAreInitialized ==
  last.op = "startup" =>
    \A e \in EngineNames :
      e \in engines =>
        /\ initialized[e] /\ voices[e] # << >>
        /\ e = "kokoro" => pythonExecutable

\* C28: two synthesis requests that wait for their subprocesses at the same
\* time have different output paths.
DistinctOutputPaths ==
  \A s, t \in Slots :
    (s # t /\ reqs[s].pc = "exec" /\ reqs[t].pc = "exec") => reqs[s].path # reqs[t].path

\* C29: a play whose afplay could not be started is not answered "playing",
\* and the 'error' event of the child leaves the host process running.
PlayErrorHandled ==
  /\ hostAlive
  /\ \A p \in Pids :
       (last.op = "play" /\ currentProcess = p /\ procs[p].st = "failed") =>
          last.code = "PLAYBACK_FAILED"

\* C30: an operation that waits for its subprocess is settled by the first
\* of the close, the error and the deadline of the subprocess, the host
\* process running on; and the deadline of a subprocess that has closed
\* sends no signal and changes no outcome.
SettlesOnce ==
  [][ \A s \in Slots :
        /\ (reqs[s].pc \in {"exec", "probe"} /\ reqs'[s].pc # reqs[s].pc) =>
              /\ hostAlive'
              /\ reqs'[s].pc \in {"timer", "dying"}
              /\ last'.op \in ProbeKinds \cup {"synthesize", "synthesize_text"}
        /\ (Deadline(s) /\ reqs[s].pc = "timer") =>
              /\ last'.sig = NoSig /\ last'.code = NULL
              /\ UNCHANGED <<lastCompleted, mostRecentFile, engineVars>> ]_vars
====
